---- MODULE Spec2Model ----
(***************************************************************************)
(* A model of src/query.py: the SourcePacket wire codec, Query.receive()   *)
(* with its split-packet reassembly, Query.send(), the challenge exchange  *)
(* of Query.receive_challenge() and the info/rules/players operations.     *)
(*                                                                         *)
(* Bytes are integers 0..255, a buffer is a sequence of bytes, a cursor is *)
(* the number of bytes already consumed.  A decoded string is the sequence *)
(* of its Unicode code points.                                             *)
(***************************************************************************)
EXTENDS Integers, Sequences, FiniteSets, TLC

VARIABLES
    op,             \* the public operation in progress: "none", "info", "rules", "players"
    pc,             \* where the operation stands
    sent,           \* the request datagrams passed to sendto() by this operation, in order
    recvd,          \* the datagrams recv() delivered to the receive() call in progress
    packets,        \* receive()'s dict of fragment payloads keyed by fragment number
    old_packet_id,  \* receive()'s local of that name
    packet,         \* the SourcePacket the operation holds: [buf, pos]
    outcome,        \* "none" while running, "returned", or the exception that reached the caller
    result,         \* what the operation returned to its caller
    wire            \* what the server put on the wire: the response it encoded and how
                    \* much of it arrived, or the datagrams in the socket's receive buffer

vars == <<op, pc, sent, recvd, packets, old_packet_id, packet, outcome, result, wire>>

(***************************************************************************)
(* Protocol constants, src/query.py lines 14-26.                           *)
(***************************************************************************)
PACKET_SIZE == 1400
WHOLE == -1
SPLIT == -2
A2S_INFO_HEADER == 84
\* "Source Engine Query", as code points
A2S_INFO_PAYLOAD ==
    <<83, 111, 117, 114, 99, 101, 32, 69, 110, 103, 105, 110, 101, 32, 81, 117, 101, 114, 121>>
A2S_RULES_HEADER == 86
A2S_PLAYERS_HEADER == 85
CHALLENGE_NUMBER_REQUEST == -1
CHALLENGE_NUMBER_HEADER == 65
\* ord('E'), the literal receive_challenge() compares the first header with
SHORT_CIRCUIT_HEADER == 69

(***************************************************************************)
(* Bounds of the model.                                                    *)
(***************************************************************************)
\* recv() calls that deliver a datagram within one receive() call
MaxRecv == 3
\* players a players response advertises
MaxPlayers == 2

\* the rules of a rules response
MaxRules == 2

\* the bytes of a buffer the codec reads from
MaxBuf == 8

\* the calls made on one Query, and the datagrams its socket holds unread
MaxCalls == 2

MaxQueue == 2

(***************************************************************************)
(* struct.pack / struct.unpack, little-endian.                             *)
(***************************************************************************)
Min(a, b) == IF a < b THEN a ELSE b

\* struct.pack('<B', v)
pack_B(v) == <<v>>

\* struct.pack('<h', v), v in -32768..32767
pack_h(v) == <<v % 256, (v \div 256) % 256>>

\* struct.pack('<l', v), v in -2^31..2^31-1
pack_l(v) == <<v % 256, (v \div 256) % 256, (v \div 65536) % 256, (v \div 16777216) % 256>>

\* struct.pack('<Q', v), v in 0..2^64-1 given as base-2^24 digits [lo, mid, hi]
pack_Q(v) ==
    <<v.lo % 256, (v.lo \div 256) % 256, v.lo \div 65536,
      v.mid % 256, (v.mid \div 256) % 256, v.mid \div 65536,
      v.hi % 256, v.hi \div 256>>

\* struct.pack('<f', v), v a 32-bit float given as [sign, exponent, fraction]
pack_f(v) ==
    <<v.fraction % 256, (v.fraction \div 256) % 256,
      (v.exponent % 2) * 128 + v.fraction \div 65536,
      v.sign * 128 + v.exponent \div 2>>

\* struct.unpack('<B', b)[0]
unpack_B(b) == b[1]

\* struct.unpack('<h', b)[0]
unpack_h(b) == b[1] + 256 * (IF b[2] >= 128 THEN b[2] - 256 ELSE b[2])

\* struct.unpack('<l', b)[0]
unpack_l(b) == b[1] + 256 * b[2] + 65536 * b[3]
               + 16777216 * (IF b[4] >= 128 THEN b[4] - 256 ELSE b[4])

\* struct.unpack('<Q', b)[0], as base-2^24 digits: lo + 2^24 * mid + 2^48 * hi
unpack_Q(b) == [lo  |-> b[1] + 256 * b[2] + 65536 * b[3],
                mid |-> b[4] + 256 * b[5] + 65536 * b[6],
                hi  |-> b[7] + 256 * b[8]]

\* struct.unpack('<f', b)[0]: the float is kept as its IEEE-754 bit pattern
unpack_f(b) == <<"f32", b[1], b[2], b[3], b[4]>>

\* the bytes a wire type takes
calcsize(type) ==
    CASE type = "byte"      -> 1
      [] type = "short"     -> 2
      [] type = "long"      -> 4
      [] type = "long_long" -> 8
      [] type = "float"     -> 4

\* struct.unpack of a wire type over exactly calcsize(type) bytes
unpack(type, b) ==
    CASE type = "byte"      -> unpack_B(b)
      [] type = "short"     -> unpack_h(b)
      [] type = "long"      -> unpack_l(b)
      [] type = "long_long" -> unpack_Q(b)
      [] type = "float"     -> unpack_f(b)

(***************************************************************************)
(* SourcePacket reads.  Each takes the buffer and the cursor and gives     *)
(* [err, val, pos]: err is "none" or the exception raised, pos the cursor  *)
(* the packet is left with.                                                *)
(***************************************************************************)
\* BytesIO.read1(n): at most n bytes from the cursor, the cursor moved past them
read1(buf, pos, n) ==
    [bytes |-> SubSeq(buf, pos + 1, pos + Min(n, Len(buf) - pos)),
     pos   |-> pos + Min(n, Len(buf) - pos)]

\* A faulty unpack that pads a short read with 0x00 instead of raising: the
\* reads-past-the-end property must tell it from unpack_read.
unpack_read_padded(type, r) ==
    [err |-> "none",
     val |-> unpack(type, r.bytes \o [i \in 1..(calcsize(type) - Len(r.bytes)) |-> 0]),
     pos |-> r.pos]

\* struct.unpack(fmt, r.bytes)[0] of the bytes r that read1 gave: struct.error
\* unless they are as many as the format takes
unpack_read(type, r) ==
    IF Len(r.bytes) = calcsize(type)
    THEN [err |-> "none", val |-> unpack(type, r.bytes), pos |-> r.pos]
    ELSE [err |-> "struct.error", val |-> 0, pos |-> r.pos]

get_number(type, buf, pos) == unpack_read(type, read1(buf, pos, calcsize(type)))

get_byte(buf, pos) == get_number("byte", buf, pos)

get_short(buf, pos) == get_number("short", buf, pos)

get_long(buf, pos) == get_number("long", buf, pos)

get_long_long(buf, pos) == get_number("long_long", buf, pos)

get_float(buf, pos) == get_number("float", buf, pos)

\* the length of the UTF-8 sequence a lead byte opens, 0 for a byte that opens none
utf8_len(b1) ==
    IF b1 < 128 THEN 1
    ELSE IF b1 \in 194..223 THEN 2
    ELSE IF b1 \in 224..239 THEN 3
    ELSE IF b1 \in 240..244 THEN 4
    ELSE 0

\* b opens with a well-formed UTF-8 sequence of n bytes
utf8_well_formed(b, n) ==
    /\ n > 0
    /\ Len(b) >= n
    /\ \A i \in 2..n : b[i] \in 128..191
    /\ (b[1] = 224 => b[2] >= 160)
    /\ (b[1] = 237 => b[2] <= 159)
    /\ (b[1] = 240 => b[2] >= 144)
    /\ (b[1] = 244 => b[2] <= 143)

\* the code point of the n-byte sequence b opens with
utf8_code_point(b, n) ==
    IF n = 1 THEN b[1]
    ELSE IF n = 2 THEN (b[1] - 192) * 64 + (b[2] - 128)
    ELSE IF n = 3 THEN (b[1] - 224) * 4096 + (b[2] - 128) * 64 + (b[3] - 128)
    ELSE (b[1] - 240) * 262144 + (b[2] - 128) * 4096 + (b[3] - 128) * 64 + (b[4] - 128)

utf8_cons(cp, rest) == IF rest.ok THEN [ok |-> TRUE, cps |-> <<cp>> \o rest.cps] ELSE rest

\* bytes.decode("utf-8"), strict: [ok, cps], cps the code points
RECURSIVE utf8_decode(_)
utf8_decode_from(b, n) ==
    IF ~utf8_well_formed(b, n) THEN [ok |-> FALSE, cps |-> <<>>]
    ELSE utf8_cons(utf8_code_point(b, n), utf8_decode(SubSeq(b, n + 1, Len(b))))

utf8_decode(b) ==
    IF b = <<>> THEN [ok |-> TRUE, cps |-> <<>>] ELSE utf8_decode_from(b, utf8_len(b[1]))

\* value.index(b'\x00', start): the 1-based position of the first 0x00 after
\* the first pos bytes, 0 where index() raises ValueError
index_nul(buf, pos) ==
    IF \E i \in (pos + 1)..Len(buf) : buf[i] = 0
    THEN CHOOSE i \in (pos + 1)..Len(buf) :
            buf[i] = 0 /\ \A j \in (pos + 1)..(i - 1) : buf[j] # 0
    ELSE 0

\* lines 87-90: the span decoded, the cursor moved past the 0x00 at end
string_decoded(d, pos, end) ==
    IF d.ok THEN [err |-> "none", val |-> d.cps, pos |-> end]
    ELSE [err |-> "ValueError", val |-> <<>>, pos |-> pos]

string_to(buf, pos, end) ==
    IF end = 0 THEN [err |-> "ValueError", val |-> <<>>, pos |-> pos]
    ELSE string_decoded(utf8_decode(SubSeq(buf, pos + 1, end - 1)), pos, end)

get_string(buf, pos) == string_to(buf, pos, index_nul(buf, pos))

\* the get_* call of a wire type
get(type, buf, pos) ==
    IF type = "string" THEN get_string(buf, pos) ELSE get_number(type, buf, pos)

\* SourcePacket(data): a fresh packet over data, the cursor at 0
SourcePacket(data) == [buf |-> data, pos |-> 0]

\* packet.seek(0, 0)
Rewound(p) == [buf |-> p.buf, pos |-> 0]

NoPacket == [buf |-> <<>>, pos |-> 0]

\* data[key] = value
Put(data, key, value) ==
    [k \in DOMAIN data \cup {key} |-> IF k = key THEN value ELSE data[k]]

\* {}
EmptyDict == [k \in {} |-> 0]

\* A run of reads, each stored under its key, in order, up to the first that
\* raises: [err, pos, data].  fields is a sequence of <<key, wire type>>.
RECURSIVE read_fields(_, _, _, _)
read_stored(buf, fields, data, r) ==
    IF r.err # "none" THEN [err |-> r.err, pos |-> r.pos, data |-> data]
    ELSE read_fields(buf, r.pos, Tail(fields), Put(data, fields[1][1], r.val))

read_fields(buf, pos, fields, data) ==
    IF fields = <<>> THEN [err |-> "none", pos |-> pos, data |-> data]
    ELSE read_stored(buf, fields, data, get(fields[1][2], buf, pos))

\* the utf-8 bytes of one code point
utf8_bytes(c) ==
    IF c < 128 THEN <<c>>
    ELSE IF c < 2048 THEN <<192 + (c \div 64), 128 + (c % 64)>>
    ELSE IF c < 65536 THEN <<224 + (c \div 4096), 128 + ((c \div 64) % 64), 128 + (c % 64)>>
    ELSE <<240 + (c \div 262144), 128 + ((c \div 4096) % 64),
           128 + ((c \div 64) % 64), 128 + (c % 64)>>

\* bytes(value, 'utf-8'), value without surrogate code points
RECURSIVE utf8_encode(_)
utf8_encode(cps) ==
    IF cps = <<>> THEN <<>> ELSE utf8_bytes(cps[1]) \o utf8_encode(Tail(cps))

(***************************************************************************)
(* SourcePacket writes: the bytes appended to the packet.                  *)
(***************************************************************************)
write_byte(value) == pack_B(value)

write_long(value) == pack_l(value)

write_short(value) == pack_h(value)

write_long_long(value) == pack_Q(value)

write_float(value) == pack_f(value)

\* A faulty write_string that leaves out the terminator of line 80: the
\* round-trip property must tell it from write_string.
write_string_unterminated(value) == utf8_encode(value)

write_string(value) == utf8_encode(value) \o <<0>>

\* the write_* call of a wire type
write(type, value) ==
    CASE type = "byte"      -> write_byte(value)
      [] type = "short"     -> write_short(value)
      [] type = "long"      -> write_long(value)
      [] type = "long_long" -> write_long_long(value)
      [] type = "float"     -> write_float(value)
      [] type = "string"    -> write_string(value)

\* BytesIO.write(b) on packet p: the bytes put at the cursor, the cursor past them
Written(p, b) ==
    [buf |-> SubSeq(p.buf, 1, p.pos) \o b \o SubSeq(p.buf, p.pos + Len(b) + 1, Len(p.buf)),
     pos |-> p.pos + Len(b)]

(***************************************************************************)
(* Query.receive(), lines 101-161.                                         *)
(***************************************************************************)
\* connection.recv(PACKET_SIZE) of datagram d: at most PACKET_SIZE bytes of it
recv(d) == SubSeq(d, 1, Min(Len(d), PACKET_SIZE))

\* packets = {}
NoPackets == [x \in {} |-> <<>>]

\* old_packet_id = None; the local is not assigned again
None == [set |-> FALSE, id |-> 0]

\* packets[number] = payload
Store(pk, number, payload) ==
    [x \in DOMAIN pk \cup {number} |-> IF x = number THEN payload ELSE pk[x]]

\* A faulty join, the fragments in descending index order: the reassembly-order
\* property must tell it from Concat.
RECURSIVE Concat_descending(_, _)
Concat_descending(pk, n) ==
    IF n = 0 THEN <<>> ELSE pk[n - 1] \o Concat_descending(pk, n - 1)

\* packets[0] + packets[1] + ... + packets[n-1]
RECURSIVE Concat(_, _)
Concat(pk, n) == IF n = 0 THEN <<>> ELSE Concat(pk, n - 1) \o pk[n - 1]

\* lines 150-156: the fragments joined for x in range(len(packets)); a missing
\* key is the QueryError 'Missing a split packet'
combine(pk) ==
    IF \A x \in 0..(Cardinality(DOMAIN pk) - 1) : x \in DOMAIN pk
    THEN [err |-> "none", buf |-> Concat(pk, Cardinality(DOMAIN pk))]
    ELSE [err |-> "QueryError", buf |-> <<>>]

\* What one step of receive() comes to: an exception (err), a returned packet
\* (done, with packet), or another recv() with the fragments collected so far.
Raised(e, pk) == [err |-> e, done |-> FALSE, packets |-> pk, packet |-> NoPacket]

Returned(p) == [err |-> "none", done |-> TRUE, packets |-> NoPackets, packet |-> p]

Collecting(pk) == [err |-> "none", done |-> FALSE, packets |-> pk, packet |-> NoPacket]

\* lines 131-132: the reads before the packet id is compared
SPLIT_ID_FIELDS == <<(<<"header", "long">>), (<<"packet_id", "long">>)>>

\* lines 138-140: the reads after it
SPLIT_FIELDS == <<(<<"total", "byte">>), (<<"number", "byte">>), (<<"size", "short">>)>>

\* lines 150-161: after the break, the join raises or receive() returns
loop_exit(joined, stored) ==
    IF joined.err # "none" THEN Raised(joined.err, stored)
    ELSE Returned(SourcePacket(joined.buf))

\* lines 143-148: break when len(packets) > total - 1, else recv() again
loop_test(stored, total) ==
    IF Cardinality(DOMAIN stored) > total - 1
    THEN loop_exit(combine(stored), stored)
    ELSE Collecting(stored)

\* lines 138-141: f the reads of total, number and size; data.read() is stored
loop_store(data, pk, f) ==
    IF f.err # "none" THEN Raised(f.err, pk)
    ELSE loop_test(Store(pk, f.data.number, SubSeq(data, f.pos + 1, Len(data))), f.data.total)

\* lines 134-136: h the reads of header and packet_id
loop_check_id(data, pk, old, h) ==
    IF h.err # "none" THEN Raised(h.err, pk)
    ELSE IF h.data.packet_id # old.id /\ old.set THEN Raised("QueryError", pk)
    ELSE loop_store(data, pk, read_fields(data, h.pos, SPLIT_FIELDS, EmptyDict))

\* lines 131-156: one pass of the while loop over datagram data, then either the
\* next recv() or the join after the break
loop_body(data, pk, old) ==
    loop_check_id(data, pk, old, read_fields(data, 0, SPLIT_ID_FIELDS, EmptyDict))

\* lines 117-128: header the get_long() of line 117
first_header(data, header) ==
    IF header.err # "none" THEN Raised(header.err, NoPackets)
    ELSE IF header.val = WHOLE THEN Returned(Rewound(SourcePacket(data)))
    ELSE loop_body(data, NoPackets, None)

\* lines 112-128: the first datagram of a receive() call
receive_first(data) == first_header(data, get_long(data, 0))

\* A faulty timeout that is swallowed, receive() returning the fragments it has
\* joined: the timeout property must tell it from recv_timeout.
recv_timeout_partial(pk) == loop_exit(combine(pk), pk)

\* a recv() that raises socket.timeout, at line 112 or at line 148
recv_timeout(pk) == Raised("socket.timeout", pk)

(***************************************************************************)
(* Query.send(), lines 163-190: the request datagram passed to sendto().   *)
(* A payload is a str or an int.                                           *)
(***************************************************************************)
StrPayload(v) == [type |-> "str", str |-> v, int |-> 0]

IntPayload(v) == [type |-> "int", str |-> <<>>, int |-> v]

\* if payload:
Truthy(payload) == IF payload.type = "str" THEN payload.str # <<>> ELSE payload.int # 0

\* lines 173-179: what the payload adds to the packet
write_payload(payload) ==
    IF ~Truthy(payload) THEN <<>>
    ELSE IF payload.type = "str" THEN write_string(payload.str)
    ELSE write_long(payload.int)

\* lines 170-181
request(header, payload) == write_long(WHOLE) \o write_byte(header) \o write_payload(payload)

(***************************************************************************)
(* Query.receive_challenge(), lines 192-220.  Each step gives              *)
(* [err, ret, packet, challenge]: an exception (err), the packet returned  *)
(* to the caller (ret), or the challenge to send the second request with.  *)
(***************************************************************************)
ChallengeRaised(e) == [err |-> e, ret |-> FALSE, packet |-> NoPacket, challenge |-> 0]

ChallengeReturned(p) == [err |-> "none", ret |-> TRUE, packet |-> p, challenge |-> 0]

ChallengeRetry(c) == [err |-> "none", ret |-> FALSE, packet |-> NoPacket, challenge |-> c]

\* lines 201-203 and 214-215: the reads of the marker and the header byte
RESPONSE_FIELDS == <<(<<"split", "long">>), (<<"rec_header", "byte">>)>>

\* line 204: chr(rec_header) == 'E'
is_data_header(rec_header) == rec_header = SHORT_CIRCUIT_HEADER

\* A faulty test of the second response, against the literal of line 204: the
\* challenge re-issue property must tell it from is_challenge_header.
is_challenge_header_literal(rec_header) == rec_header = SHORT_CIRCUIT_HEADER

\* line 216
is_challenge_header(rec_header) == rec_header = CHALLENGE_NUMBER_HEADER

\* lines 211-212: challenge the get_long() of line 211
first_challenge(challenge) ==
    IF challenge.err # "none" THEN ChallengeRaised(challenge.err)
    ELSE ChallengeRetry(challenge.val)

\* lines 204-212: h the reads of lines 201-203
first_response(p, h) ==
    IF h.err # "none" THEN ChallengeRaised(h.err)
    ELSE IF is_data_header(h.data.rec_header) THEN ChallengeReturned(Rewound(p))
    ELSE first_challenge(get_long(p.buf, h.pos))

\* lines 201-212, on the packet the first send() returned
challenge_first(p) == first_response(p, read_fields(p.buf, p.pos, RESPONSE_FIELDS, EmptyDict))

\* A faulty second step that asks again with the challenge re-issued instead of
\* raising: the bounded-round-trips property must tell it from second_response.
second_response_retry(p, h) ==
    IF h.err # "none" THEN ChallengeRaised(h.err)
    ELSE IF is_challenge_header(h.data.rec_header) THEN first_challenge(get_long(p.buf, h.pos))
    ELSE ChallengeReturned(Rewound(p))

\* lines 216-220: h the reads of lines 214-215
second_response(p, h) ==
    IF h.err # "none" THEN ChallengeRaised(h.err)
    ELSE IF is_challenge_header(h.data.rec_header) THEN ChallengeRaised("ChallengeError")
    ELSE ChallengeReturned(Rewound(p))

\* lines 214-220, on the packet the second send() returned
challenge_second(p) == second_response(p, read_fields(p.buf, p.pos, RESPONSE_FIELDS, EmptyDict))

(***************************************************************************)
(* The decoders of info(), rules() and players(): [err, val].              *)
(***************************************************************************)
DecodeRaised(e) == [err |-> e, val |-> <<>>]

Decoded(v) == [err |-> "none", val |-> v]

\* lines 373-376
PLAYERS_PREAMBLE ==
    <<(<<"split", "long">>), (<<"header", "byte">>), (<<"number_of_players", "byte">>)>>

\* lines 380-385: the dict of one player, read in key order
PLAYER_FIELDS ==
    <<(<<"index", "byte">>), (<<"name", "string">>), (<<"score", "long">>),
      (<<"duration", "float">>)>>

\* A slot of the players list: the int list(range(n)) put there, or the dict
\* that replaced it.
IntSlot(x) == [int |-> x]

DictSlot(d) == [dict |-> d]

\* lines 378-388: slots x..n-1 of the list, the packet's cursor at pos; a read
\* that raises ValueError or struct.error leaves the slot as it was
RECURSIVE players_loop(_, _, _, _)
\* A faulty loop body that appends to the list and leaves the loop at the first
\* read that raises: the
\* degraded-decode property must tell it from player_slot.
player_slot_break(buf, x, n, r) ==
    IF r.err = "none" THEN <<DictSlot(r.data)>> \o players_loop(buf, r.pos, x + 1, n)
    ELSE <<>>

player_slot(buf, x, n, r) ==
    <<IF r.err = "none" THEN DictSlot(r.data) ELSE IntSlot(x)>>
    \o players_loop(buf, r.pos, x + 1, n)

players_loop(buf, pos, x, n) ==
    IF x >= n THEN <<>>
    ELSE player_slot(buf, x, n, read_fields(buf, pos, PLAYER_FIELDS, EmptyDict))

\* lines 376-390: h the reads of lines 373-376
players_list(buf, h) ==
    IF h.err # "none" THEN DecodeRaised(h.err)
    ELSE Decoded(players_loop(buf, h.pos, 0, h.data.number_of_players))

\* lines 373-390 of players(), on the packet receive_challenge() returned
players(p) == players_list(p.buf, read_fields(p.buf, p.pos, PLAYERS_PREAMBLE, EmptyDict))

\* lines 330-332
RULES_PREAMBLE ==
    <<(<<"split", "long">>), (<<"header", "byte">>), (<<"total_rules", "short">>)>>

\* "N/A - packet cut off"
CUT_OFF ==
    <<78, 47, 65, 32, 45, 32, 112, 97, 99, 107, 101, 116, 32, 99, 117, 116, 32, 111, 102, 102>>

\* lines 335-348: the rules dict after `left` more passes of the loop
RECURSIVE rules_loop(_, _, _, _)
\* lines 344-348: value the get_string() of line 345
rule_value(buf, left, dict, name, value) ==
    rules_loop(buf, value.pos, left - 1,
               Put(dict, name, IF value.err # "none" THEN CUT_OFF ELSE value.val))

\* lines 339-348: name the get_string() of line 340
rule_name(buf, left, dict, name) ==
    IF name.err # "none" THEN rules_loop(buf, name.pos, left - 1, dict)
    ELSE rule_value(buf, left, dict, name.val, get_string(buf, name.pos))

rules_loop(buf, pos, left, dict) ==
    IF left <= 0 THEN dict ELSE rule_name(buf, left, dict, get_string(buf, pos))

\* lines 334-350: h the reads of lines 330-332
rules_dict(buf, h) ==
    IF h.err # "none" THEN DecodeRaised(h.err)
    ELSE Decoded(rules_loop(buf, h.pos, h.data.total_rules, EmptyDict))

\* lines 330-350 of rules(), on the packet receive_challenge() returned
rules(p) == rules_dict(p.buf, read_fields(p.buf, p.pos, RULES_PREAMBLE, EmptyDict))

\* lines 242-252 and 254-294: the reads of info() up to the EDF byte, in order
INFO_FIELDS ==
    <<(<<"split", "long">>), (<<"header", "byte">>), (<<"protocol", "byte">>),
      (<<"name", "string">>), (<<"map", "string">>), (<<"folder", "string">>),
      (<<"game", "string">>), (<<"id", "short">>), (<<"players", "byte">>),
      (<<"max_players", "byte">>), (<<"bots", "byte">>), (<<"server_type", "byte">>),
      (<<"environment", "byte">>), (<<"visibility", "byte">>), (<<"vac", "byte">>),
      (<<"version", "string">>), (<<"edf", "byte">>)>>

\* edf & mask, mask a power of two
BitSet(edf, mask) == (edf \div mask) % 2 = 1

\* A faulty order of the optional reads, the steamid in front of the port: the
\* EDF-gating property must tell it from edf_fields.
edf_fields_steamid_first(edf) ==
    IF edf = 0 THEN <<>>
    ELSE (IF BitSet(edf, 16) THEN <<(<<"steamid", "long_long">>)>> ELSE <<>>)
      \o (IF BitSet(edf, 128) THEN <<(<<"port", "short">>)>> ELSE <<>>)
      \o (IF BitSet(edf, 64)
          THEN <<(<<"sourcetv_port", "short">>), (<<"sourcetv_name", "string">>)>>
          ELSE <<>>)
      \o (IF BitSet(edf, 32) THEN <<(<<"keywords", "string">>)>> ELSE <<>>)
      \o (IF BitSet(edf, 1) THEN <<(<<"gameid", "long_long">>)>> ELSE <<>>)

\* lines 297-308: the reads the EDF byte asks for, in order
edf_fields(edf) ==
    IF edf = 0 THEN <<>>
    ELSE (IF BitSet(edf, 128) THEN <<(<<"port", "short">>)>> ELSE <<>>)
      \o (IF BitSet(edf, 16) THEN <<(<<"steamid", "long_long">>)>> ELSE <<>>)
      \o (IF BitSet(edf, 64)
          THEN <<(<<"sourcetv_port", "short">>), (<<"sourcetv_name", "string">>)>>
          ELSE <<>>)
      \o (IF BitSet(edf, 32) THEN <<(<<"keywords", "string">>)>> ELSE <<>>)
      \o (IF BitSet(edf, 1) THEN <<(<<"gameid", "long_long">>)>> ELSE <<>>)

\* lines 254-260: chr() of the byte, or the label of 'd', 'l', 'p'
server_type_label(b) ==
    IF b = 100 THEN <<68, 101, 100, 105, 99, 97, 116, 101, 100, 32, 83, 101, 114, 118, 101, 114>>
    ELSE IF b = 108
         THEN <<78, 111, 110, 45, 100, 101, 100, 105, 99, 97, 116, 101, 100, 32,
                83, 101, 114, 118, 101, 114>>
    ELSE IF b = 112 THEN <<83, 111, 117, 114, 99, 101, 84, 86, 32, 114, 101, 108, 97, 121>>
    ELSE <<b>>

\* lines 264-270: chr() of the byte, or the label of 'l', 'w', 'm'/'o'
environment_label(b) ==
    IF b = 108 THEN <<76, 105, 110, 117, 120>>
    ELSE IF b = 119 THEN <<87, 105, 110, 100, 111, 119, 115>>
    ELSE IF b = 109 \/ b = 111 THEN <<77, 97, 99>>
    ELSE <<b>>

\* lines 274-278: 'Private', 'Public', or the byte itself
visibility_label(b) ==
    IF b = 1 THEN [str |-> <<80, 114, 105, 118, 97, 116, 101>>]
    ELSE IF b = 0 THEN [str |-> <<80, 117, 98, 108, 105, 99>>]
    ELSE [int |-> b]

\* lines 282-286: 'Secured', 'Unsecured', or the byte itself
vac_label(b) ==
    IF b = 1 THEN [str |-> <<83, 101, 99, 117, 114, 101, 100>>]
    ELSE IF b = 0 THEN [str |-> <<85, 110, 115, 101, 99, 117, 114, 101, 100>>]
    ELSE [int |-> b]

\* the dict info() returns, from the values read: 'header' through chr(), the
\* codes replaced by their labels
info_labels(d) ==
    [k \in DOMAIN d |->
        CASE k = "header"      -> <<d[k]>>
          [] k = "server_type" -> server_type_label(d[k])
          [] k = "environment" -> environment_label(d[k])
          [] k = "visibility"  -> visibility_label(d[k])
          [] k = "vac"         -> vac_label(d[k])
          [] OTHER             -> d[k]]

\* line 310: extra the reads of lines 297-308
info_extra(extra) ==
    IF extra.err # "none" THEN DecodeRaised(extra.err) ELSE Decoded(info_labels(extra.data))

\* lines 294-310: fixed the reads up to the EDF byte
info_fixed(buf, fixed) ==
    IF fixed.err # "none" THEN DecodeRaised(fixed.err)
    ELSE info_extra(read_fields(buf, fixed.pos, edf_fields(fixed.data.edf), fixed.data))

\* lines 239-310 of info(), on the packet send() returned.  The 'ping' entry,
\* a time difference, is left out.
info(p) == info_fixed(p.buf, read_fields(p.buf, p.pos, INFO_FIELDS, [raw |-> p.buf]))

(***************************************************************************)
(* The server: the datagrams it may send.                                  *)
(***************************************************************************)
\* challenge numbers the server may issue: zero, a small one, -1 and the ends of
\* the signed 32-bit range
Challenges == {0, 7, -1, 2147483647, -2147483647 - 1}

\* a single-datagram response: the WHOLE marker, a header byte, a body
Whole(header, body) == pack_l(WHOLE) \o <<header>> \o body

ChallengeResponse(c) == Whole(CHALLENGE_NUMBER_HEADER, pack_l(c))

\* header 'E': one rule, a = b
RulesResponse == Whole(69, pack_h(1) \o <<97, 0, 98, 0>>)

\* header 'D': 7 players advertised, the response cut after the first (index 0,
\* empty name, score 3, duration 1.0)
PlayersResponse == Whole(68, <<7>> \o <<0>> \o <<0>> \o pack_l(3) \o <<0, 0, 128, 63>>)

\* header 'I': protocol 7, empty name, map, folder and game, id 10, 5 of 10
\* players, no bots, 'd', 'l', public, unsecured, version "1", EDF 0x80 with port 27015
InfoResponse ==
    Whole(73, <<7, 0, 0, 0, 0>> \o pack_h(10) \o <<5, 10, 0, 100, 108, 0, 0>>
              \o <<49, 0>> \o <<128>> \o pack_h(27015))

\* the payload of fragment `number`: the fragments 0, 1, 2 of a challenge
\* response (variant 0) or of a data response with header 'E' (variant 1)
FragmentPayload(number, variant) ==
    CASE number = 0 -> pack_l(WHOLE)
      [] number = 1 -> <<IF variant = 0 THEN CHALLENGE_NUMBER_HEADER ELSE 69>> \o pack_l(7)
      [] OTHER      -> <<number, 0>>

\* a split-packet datagram
Fragment(id, total, number, variant) ==
    pack_l(SPLIT) \o pack_l(id) \o <<total, number>> \o pack_h(PACKET_SIZE)
    \o FragmentPayload(number, variant)

\* the split-packet headers the server may send: a response in 3 fragments, one
\* in 2 (fragment 1 in two versions, and an index past the end), a fragment of
\* another response, and a fragment count of 0
FragmentHeaders ==
    {f \in [id : {1, 2}, total : {0, 2, 3}, number : 0..2, variant : {0, 1}] :
        \/ f.id = 1 /\ f.total = 3 /\ f.variant = 0
        \/ f.id = 1 /\ f.total = 2 /\ (f.variant = 0 \/ f.number = 1)
        \/ f.id = 2 /\ f.total = 2 /\ f.number = 1 /\ f.variant = 0
        \/ f.id = 1 /\ f.total = 0 /\ f.number = 0 /\ f.variant = 0}

Fragments == {Fragment(f.id, f.total, f.number, f.variant) : f \in FragmentHeaders}

Datagrams ==
    {ChallengeResponse(c) : c \in Challenges}
    \cup {RulesResponse, PlayersResponse, InfoResponse}
    \cup {<<>>, pack_l(WHOLE), pack_l(SPLIT) \o <<1>>}
    \cup Fragments

(***************************************************************************)
(* The operations.                                                         *)
(***************************************************************************)
Ops == {"info", "rules", "players"}

\* the header byte of an operation's requests
HeaderOf(o) ==
    CASE o = "info"    -> A2S_INFO_HEADER
      [] o = "rules"   -> A2S_RULES_HEADER
      [] o = "players" -> A2S_PLAYERS_HEADER

\* the payload of an operation's first request (lines 200 and 238)
FirstPayload(o) ==
    IF o = "info" THEN StrPayload(A2S_INFO_PAYLOAD) ELSE IntPayload(CHALLENGE_NUMBER_REQUEST)

\* the decoder of an operation
decode(o, p) ==
    CASE o = "info"    -> info(p)
      [] o = "rules"   -> rules(p)
      [] o = "players" -> players(p)

NoResult == [op |-> "none", val |-> <<>>]

NoWire == [players |-> <<>>, cut |-> 0]

Init ==
    /\ op = "none"
    /\ pc = "idle"
    /\ sent = <<>>
    /\ recvd = <<>>
    /\ packets = NoPackets
    /\ old_packet_id = None
    /\ packet = NoPacket
    /\ outcome = "none"
    /\ result = NoResult
    /\ wire = NoWire

\* info(), rules() or players() is called: send() builds the first request and
\* passes it to sendto(), then receive() blocks in recv() (line 112)
CallStep(o) ==
    /\ pc = "idle"
    /\ op' = o
    /\ sent' = <<request(HeaderOf(o), FirstPayload(o))>>
    /\ pc' = "recv"
    /\ UNCHANGED <<recvd, packets, old_packet_id, packet, outcome, result>>

Call(o) == CallStep(o) /\ UNCHANGED wire

\* receive() goes on from step r: the exception reaches the caller; or the
\* packet goes back through send() to info() or receive_challenge(); or
\* receive() blocks in recv() again (line 148)
ReceiveStep(r) ==
    /\ packets' = r.packets
    /\ IF r.err # "none"
       THEN /\ outcome' = r.err
            /\ pc' = "done"
            /\ UNCHANGED packet
       ELSE IF r.done
       THEN /\ packet' = r.packet
            /\ pc' = IF op = "info" THEN "decode" ELSE "challenge"
            /\ UNCHANGED outcome
       ELSE /\ pc' = "frag"
            /\ UNCHANGED <<packet, outcome>>
    /\ UNCHANGED <<op, sent, old_packet_id, result>>

Receive(r) == ReceiveStep(r) /\ UNCHANGED wire

\* the recv() of line 112 delivers datagram d
RecvFirst(d) ==
    /\ pc = "recv"
    /\ recvd' = <<d>>
    /\ Receive(receive_first(recv(d)))

\* the recv() of line 148 delivers datagram d
RecvNext(d) ==
    /\ pc = "frag"
    /\ Len(recvd) < MaxRecv
    /\ recvd' = Append(recvd, d)
    /\ Receive(loop_body(recv(d), packets, old_packet_id))

\* a recv() raises socket.timeout
Timeout ==
    /\ pc \in {"recv", "frag"}
    /\ UNCHANGED recvd
    /\ Receive(recv_timeout(packets))

\* receive_challenge() goes on from step r: the exception reaches the caller; or
\* the packet is returned to rules() or players(); or send() passes the second
\* request to sendto() and receive() blocks in recv() (the first packet is of no
\* further use: line 212 assigns the name again)
ChallengeStep(r) ==
    /\ IF r.err # "none"
       THEN /\ outcome' = r.err
            /\ pc' = "done"
            /\ UNCHANGED <<sent, recvd, packet>>
       ELSE IF r.ret
       THEN /\ packet' = r.packet
            /\ pc' = "decode"
            /\ UNCHANGED <<sent, recvd, outcome>>
       ELSE /\ sent' = Append(sent, request(HeaderOf(op), IntPayload(r.challenge)))
            /\ recvd' = <<>>
            /\ packet' = NoPacket
            /\ pc' = "recv"
            /\ UNCHANGED outcome
    /\ UNCHANGED <<op, packets, old_packet_id, result, wire>>

\* receive_challenge() has the packet the first send() returned
ChallengeFirst ==
    /\ pc = "challenge"
    /\ Len(sent) = 1
    /\ ChallengeStep(challenge_first(packet))

\* receive_challenge() has the packet the second send() returned
ChallengeSecond ==
    /\ pc = "challenge"
    /\ Len(sent) = 2
    /\ ChallengeStep(challenge_second(packet))

\* the operation ends with decoder result r: it raises or returns the value
Finish(r) ==
    /\ IF r.err # "none"
       THEN outcome' = r.err /\ UNCHANGED result
       ELSE outcome' = "returned" /\ result' = [op |-> op, val |-> r.val]
    /\ pc' = "done"
    /\ UNCHANGED <<op, sent, recvd, packets, old_packet_id, packet, wire>>

\* info(), rules() or players() decodes the packet it holds
Decode ==
    /\ pc = "decode"
    /\ Finish(decode(op, packet))

\* the caller has the result or the exception; the Query is ready for the next call
ReturnStep ==
    /\ pc = "done"
    /\ op' = "none"
    /\ pc' = "idle"
    /\ sent' = <<>>
    /\ recvd' = <<>>
    /\ packets' = NoPackets
    /\ packet' = NoPacket
    /\ outcome' = "none"
    /\ result' = NoResult
    /\ UNCHANGED old_packet_id

Return == ReturnStep /\ wire' = NoWire

Next ==
    \/ \E o \in Ops : Call(o)
    \/ \E d \in Datagrams : RecvFirst(d)
    \/ \E d \in Datagrams : RecvNext(d)
    \/ Timeout
    \/ ChallengeFirst
    \/ ChallengeSecond
    \/ Decode
    \/ Return

Spec == Init /\ [][Next]_vars

(***************************************************************************)
(* players() on a well-formed response cut short: the state in which       *)
(* receive_challenge() has returned the response of the second request.    *)
(***************************************************************************)
\* names: empty, "a", and U+00E9 (two bytes in UTF-8)
PlayerNames == {<<>>, <<97>>, <<233>>}

\* the players a server may report; the duration is the float's four bytes
PlayerRecords ==
    [index : {9}, name : PlayerNames, score : {-2, 70000}, duration : {<<0, 0, 128, 63>>}]

\* one player on the wire
EncodePlayer(r) == <<r.index>> \o utf8_encode(r.name) \o <<0>> \o pack_l(r.score) \o r.duration

RECURSIVE EncodePlayers(_)
EncodePlayers(recs) ==
    IF recs = <<>> THEN <<>> ELSE EncodePlayer(recs[1]) \o EncodePlayers(Tail(recs))

\* the players response: marker, header 'D', the count, the players
PlayersPacket(recs) == Whole(68, <<Len(recs)>> \o EncodePlayers(recs))

\* what the server encoded and how many bytes of it arrived: at least the
\* count, and not all of the last player
Wires ==
    UNION {{[players |-> ps, cut |-> c] : c \in 6..(Len(PlayersPacket(ps)) - 1)} :
              ps \in UNION {[1..n -> PlayerRecords] : n \in 1..MaxPlayers}}

CutPacket(w) == SubSeq(PlayersPacket(w.players), 1, w.cut)

InitPlayers ==
    /\ wire \in Wires
    /\ op = "players"
    /\ pc = "decode"
    /\ sent = <<request(A2S_PLAYERS_HEADER, IntPayload(CHALLENGE_NUMBER_REQUEST)),
                request(A2S_PLAYERS_HEADER, IntPayload(7))>>
    /\ recvd = <<CutPacket(wire)>>
    /\ packets = NoPackets
    /\ old_packet_id = None
    /\ packet = Rewound(SourcePacket(CutPacket(wire)))
    /\ outcome = "none"
    /\ result = NoResult

NextPlayers ==
    \/ Decode
    \/ Return

SpecPlayers == InitPlayers /\ [][NextPlayers]_vars

(***************************************************************************)
(* Properties.  The split-packet header of a datagram, as the server laid  *)
(* it out: bytes 5-8 the packet id, byte 9 the fragment count, byte 10 the *)
(* fragment index, bytes 13 onwards the payload.                           *)
(***************************************************************************)
PacketIdOf(d) == SubSeq(d, 5, 8)

CountOf(d) == d[9]

IndexOf(d) == d[10]

PayloadOf(d) == SubSeq(d, 13, Len(d))

\* the datagrams of the receive() call in progress are all split-packet datagrams
AllFragments == \A i \in 1..Len(recvd) : recvd[i] \in Fragments

\* they are the n fragments of one response, n >= 1, each index 0..n-1 once,
\* all with the first one's packet id and the fragment count n
CleanSplit ==
    /\ recvd # <<>>
    /\ AllFragments
    /\ \A i \in 1..Len(recvd) :
          /\ PacketIdOf(recvd[i]) = PacketIdOf(recvd[1])
          /\ CountOf(recvd[i]) = Len(recvd)
    /\ \A x \in 0..(Len(recvd) - 1) : \E i \in 1..Len(recvd) : IndexOf(recvd[i]) = x

\* the payload of the fragment with index x among the datagrams received
PayloadAt(x) == PayloadOf(recvd[CHOOSE i \in 1..Len(recvd) : IndexOf(recvd[i]) = x])

RECURSIVE InIndexOrder(_)
InIndexOrder(n) == IF n = 0 THEN <<>> ELSE InIndexOrder(n - 1) \o PayloadAt(n - 1)

\* receive() has returned a packet to the operation and it still holds it
HoldsPacket == packet # NoPacket

\* C1.  Reassembly order: when the datagrams of a receive() call are the n
\* fragments of one split response, in whatever order, receive() returns the
\* payloads joined in index order 0..n-1, the cursor at 0.
C1_ReassemblyOrder ==
    CleanSplit => packet = [buf |-> InIndexOrder(Len(recvd)), pos |-> 0]

\* three fragments arrived, the last one first, and receive() returned
C1_Witness ==
    /\ CleanSplit
    /\ Len(recvd) = 3
    /\ IndexOf(recvd[1]) = 2
    /\ pc = "challenge"

\* C2.  Reassembly mismatch detection: once a later fragment declares another
\* packet id than the first fragment, receive() has failed with QueryError (and
\* so has returned no buffer).
C2_MismatchDetected ==
    (AllFragments /\ \E i \in 2..Len(recvd) : PacketIdOf(recvd[i]) # PacketIdOf(recvd[1]))
        => (pc = "done" /\ outcome = "QueryError" /\ ~HoldsPacket)

\* the first response has a header byte
HasHeader(p) == Len(p.buf) >= 5

HeaderByteOf(p) == p.buf[5]

\* C3.  Challenge short-circuit: when the first response of rules() or players()
\* carries another header byte than the challenge-number header,
\* receive_challenge() returns that response rewound and sends no second request.
C3_ShortCircuitStep ==
    (pc = "challenge" /\ Len(sent) = 1 /\ HasHeader(packet)
        /\ HeaderByteOf(packet) # CHALLENGE_NUMBER_HEADER)
    => (pc' = "decode" /\ sent' = sent /\ packet' = [buf |-> packet.buf, pos |-> 0])

C3_ShortCircuit == [][C3_ShortCircuitStep]_vars

\* C4.  Challenge echo: every request of rules() and players() is the four
\* 0xFF bytes of the WHOLE marker, the header byte of the query and four more
\* bytes: 0xFF four times (-1) in the first request, the four challenge bytes of
\* the first response in the second.
C4_ChallengeEchoStep ==
    (op' \in {"rules", "players"} /\ Len(sent') > Len(sent))
    => sent'[Len(sent')] =
          <<255, 255, 255, 255>>
          \o <<IF op' = "rules" THEN A2S_RULES_HEADER ELSE A2S_PLAYERS_HEADER>>
          \o (IF Len(sent') = 1 THEN <<255, 255, 255, 255>> ELSE SubSeq(packet.buf, 6, 9))

C4_ChallengeEcho == [][C4_ChallengeEchoStep]_vars

\* C5.  Challenge re-issue is an error: a second response with the
\* challenge-number header makes receive_challenge() raise ChallengeError with no
\* further request; any other second response is returned rewound; and no packet
\* receive_challenge() returns carries the challenge-number header.
C5_SecondResponseStep ==
    (pc = "challenge" /\ Len(sent) = 2 /\ HasHeader(packet))
    => /\ sent' = sent
       /\ IF HeaderByteOf(packet) = CHALLENGE_NUMBER_HEADER
          THEN pc' = "done" /\ outcome' = "ChallengeError" /\ result' = NoResult
          ELSE pc' = "decode" /\ outcome' = "none"
               /\ packet' = [buf |-> packet.buf, pos |-> 0]

C5_NeverChallengeHeader ==
    (pc = "decode" /\ op \in {"rules", "players"})
    => (HasHeader(packet) /\ HeaderByteOf(packet) # CHALLENGE_NUMBER_HEADER)

C5_ChallengeReissue ==
    /\ [][C5_SecondResponseStep]_vars
    /\ [](C5_NeverChallengeHeader /\ Len(sent) <= 2)

\* the second response carried the challenge-number header and the call raised
C5_Witness ==
    /\ pc = "done"
    /\ outcome = "ChallengeError"
    /\ Len(sent) = 2
    /\ HeaderByteOf(packet) = CHALLENGE_NUMBER_HEADER

\* the exceptions of a failed exchange
ExchangeErrors == {"socket.timeout", "QueryError", "ChallengeError", "struct.error"}

\* C6.  Bounded round trips, no retries: info() sends one request, rules() and
\* players() at most two; the second is sent only by receive_challenge() holding
\* the complete first response; once an exchange has failed the operation is
\* over: it sends nothing more and the exception is what the caller gets.
C6_Counts ==
    /\ op = "info" => Len(sent) = 1
    /\ op \in {"rules", "players"} => Len(sent) \in {1, 2}
    /\ (outcome \in ExchangeErrors \/ outcome = "ValueError") => pc = "done"

C6_Step ==
    /\ (Len(sent') > Len(sent) /\ Len(sent) = 1) => (pc = "challenge" /\ HoldsPacket)
    /\ pc = "done" => (pc' = "idle" /\ sent' = <<>>) \/ UNCHANGED <<pc, sent, outcome, result>>

C6_BoundedRoundTrips == []C6_Counts /\ [][C6_Step]_vars

\* the second exchange of rules() or players() failed
C6_Witness ==
    /\ op \in {"rules", "players"}
    /\ Len(sent) = 2
    /\ pc = "done"
    /\ outcome \in ExchangeErrors

\* C7.  Reassembly coverage: when receive() returns a reassembled packet, the
\* fragments it collected are as many as the first fragment's fragment count and
\* carry every index below it; a stream with an index out of range or with
\* another fragment count in a later fragment gets no buffer.
C7_Coverage ==
    (AllFragments /\ HoldsPacket)
    => /\ Len(recvd) = CountOf(recvd[1])
       /\ \A x \in 0..(CountOf(recvd[1]) - 1) : \E i \in 1..Len(recvd) : IndexOf(recvd[i]) = x
       /\ \A i \in 1..Len(recvd) :
             IndexOf(recvd[i]) < CountOf(recvd[1]) /\ CountOf(recvd[i]) = CountOf(recvd[1])

\* C8.  Duplicate fragment detection: when a fragment index arrives a second
\* time with other payload bytes, receive() returns no buffer.
C8_DuplicateDetected ==
    (AllFragments
        /\ \E i, j \in 1..Len(recvd) :
              IndexOf(recvd[i]) = IndexOf(recvd[j]) /\ PayloadOf(recvd[i]) # PayloadOf(recvd[j]))
    => ~HoldsPacket

\* C9.  Timeout surfaces: a recv() that times out, before the first datagram or
\* during reassembly, in the first or the second exchange, ends the operation
\* with socket.timeout; it returns nothing.
C9_TimeoutStep ==
    (pc \in {"recv", "frag"} /\ recvd' = recvd /\ pc' # pc)
    => (pc' = "done" /\ outcome' = "socket.timeout" /\ result' = NoResult /\ sent' = sent)

C9_TimedOut ==
    outcome = "socket.timeout" => (pc = "done" /\ result = NoResult)

C9_TimeoutSurfaces == [][C9_TimeoutStep]_vars /\ []C9_TimedOut

\* the second exchange timed out with fragments collected
C9_Witness ==
    /\ outcome = "socket.timeout"
    /\ Len(sent) = 2
    /\ DOMAIN packets # {}

\* the end (in bytes of the response) of player i of wire w
RECURSIVE PlayerEnd(_, _)
PlayerEnd(w, i) == IF i = 0 THEN 6 ELSE PlayerEnd(w, i - 1) + Len(EncodePlayer(w.players[i]))

\* the players of w that arrived whole
Complete(w) == Cardinality({i \in 1..Len(w.players) : PlayerEnd(w, i) <= w.cut})

\* the dict of a player as the server encoded it
PlayerDict(r) ==
    [index |-> r.index, name |-> r.name, score |-> r.score,
     duration |-> <<"f32", r.duration[1], r.duration[2], r.duration[3], r.duration[4]>>]

\* C10.  Degraded players decode: of a players response advertising n players
\* and cut so that the first k < n arrived whole, players() returns a list of n:
\* the dicts of the first k in wire order, then the ints k..n-1; it does not raise.
C10_DegradedPlayers ==
    (pc = "done" /\ wire # NoWire)
    => /\ outcome = "returned"
       /\ result.op = "players"
       /\ result.val = [x \in 1..Len(wire.players) |->
                           IF x <= Complete(wire) THEN [dict |-> PlayerDict(wire.players[x])]
                           ELSE [int |-> x - 1]]

\* two players advertised, the response cut inside the second one's score
C10_Witness ==
    /\ pc = "done"
    /\ Len(wire.players) = 2
    /\ Complete(wire) = 1
    /\ wire.cut > PlayerEnd(wire, 1) + 3
    /\ outcome = "returned"

(***************************************************************************)
(* rules() on its own: the second response is a rules packet, whole or cut *)
(* short, and rules() decodes it.                                          *)
(***************************************************************************)
\* the bytes of a rule's name and of its value; 0xFF is no UTF-8
RuleNames == {<<97>>, <<98>>, <<255>>}

RuleValues == {<<>>, <<97>>, <<255>>}

RulePairs == [name : RuleNames, value : RuleValues]

\* one rule on the wire
EncodeRule(r) == r.name \o <<0>> \o r.value \o <<0>>

RECURSIVE EncodeRules(_)
EncodeRules(rs) == IF rs = <<>> THEN <<>> ELSE EncodeRule(rs[1]) \o EncodeRules(Tail(rs))

\* the rules response: marker, header 'E', the count, the rules
RulesPacket(rs) == Whole(69, pack_h(Len(rs)) \o EncodeRules(rs))

\* what the server encoded and how many bytes of it arrived: at least the count
RuleWires ==
    UNION {{[rules |-> rs, cut |-> c] : c \in 7..Len(RulesPacket(rs))} :
              rs \in UNION {[1..n -> RulePairs] : n \in 1..MaxRules}}

CutRules(w) == SubSeq(RulesPacket(w.rules), 1, w.cut)

InitRules ==
    /\ wire \in RuleWires
    /\ op = "rules"
    /\ pc = "decode"
    /\ sent = <<request(A2S_RULES_HEADER, IntPayload(CHALLENGE_NUMBER_REQUEST)),
                request(A2S_RULES_HEADER, IntPayload(7))>>
    /\ recvd = <<CutRules(wire)>>
    /\ packets = NoPackets
    /\ old_packet_id = None
    /\ packet = Rewound(SourcePacket(CutRules(wire)))
    /\ outcome = "none"
    /\ result = NoResult

NextRules ==
    \/ Decode
    \/ Return

SpecRules == InitRules /\ [][NextRules]_vars

\* the end (in bytes of the response) of rule i of wire w, and of its name
RECURSIVE RuleEnd(_, _)
RuleEnd(w, i) == IF i = 0 THEN 7 ELSE RuleEnd(w, i - 1) + Len(EncodeRule(w.rules[i]))

NameEnd(w, i) == RuleEnd(w, i - 1) + Len(w.rules[i].name) + 1

\* the terminator of the name, of the value, of rule i arrived
NameTerminated(w, i) == NameEnd(w, i) <= w.cut

ValueTerminated(w, i) == RuleEnd(w, i) <= w.cut

\* the bytes are UTF-8, and the text they encode
IsText(b) == utf8_decode(b).ok

TextOf(b) == utf8_decode(b).cps

\* rule i is the last of the rules read to carry its name
LastOfName(w, i) ==
    \A j \in (i + 1)..Len(w.rules) :
        NameTerminated(w, j) => w.rules[j].name # w.rules[i].name

\* C11.  Degraded rules decode: rules() does not raise once the preamble is
\* read; of the advertised rules, one whose name and value both have their
\* terminators is recorded name -> value, one whose name has and whose value
\* lacks the terminator is recorded with 'N/A - packet cut off', one whose name
\* lacks it is left out; of rules with one name the last one read counts.
C11_DegradedRules ==
    pc = "done" =>
        /\ outcome = "returned"
        /\ DOMAIN result.val \subseteq
              {TextOf(wire.rules[i].name) : i \in {j \in 1..Len(wire.rules) : NameTerminated(wire, j)}}
        /\ \A i \in 1..Len(wire.rules) :
              (NameTerminated(wire, i) /\ IsText(wire.rules[i].name) /\ LastOfName(wire, i))
              => /\ TextOf(wire.rules[i].name) \in DOMAIN result.val
                 /\ ValueTerminated(wire, i) /\ IsText(wire.rules[i].value)
                       => result.val[TextOf(wire.rules[i].name)] = TextOf(wire.rules[i].value)
                 /\ ~ValueTerminated(wire, i)
                       => result.val[TextOf(wire.rules[i].name)] = CUT_OFF

(***************************************************************************)
(* info() on its own: the response is an info packet with the optional     *)
(* fields its EDF byte announces, and info() decodes it.                   *)
(***************************************************************************)
\* the EDF bits of port, steamid, sourcetv, keywords and gameid
EdfBits == {128, 16, 64, 32, 1}

RECURSIVE SumOf(_)
SumOf(S) == IF S = {} THEN 0 ELSE LET x == CHOOSE x \in S : TRUE IN x + SumOf(S \ {x})

\* what the server encoded: the EDF byte and the optional fields that vary
InfoWires ==
    [edf : {SumOf(S) : S \in SUBSET EdfBits}, port : {27015, -2}, keywords : {<<>>, <<107>>}]

\* the optional fields on the wire, in the order of the protocol: port, steamid
\* 1, sourcetv port 27020 and name "tv", keywords, gameid 2
InfoOptional(w) ==
    (IF BitSet(w.edf, 128) THEN pack_h(w.port) ELSE <<>>)
    \o (IF BitSet(w.edf, 16) THEN <<1, 0, 0, 0, 0, 0, 0, 0>> ELSE <<>>)
    \o (IF BitSet(w.edf, 64) THEN pack_h(27020) \o <<116, 118, 0>> ELSE <<>>)
    \o (IF BitSet(w.edf, 32) THEN w.keywords \o <<0>> ELSE <<>>)
    \o (IF BitSet(w.edf, 1) THEN <<2, 0, 0, 0, 0, 0, 0, 0>> ELSE <<>>)

\* the info response: the fixed fields of InfoResponse, the EDF byte, the
\* optional fields
InfoPacket(w) ==
    Whole(73, <<7, 0, 0, 0, 0>> \o pack_h(10) \o <<5, 10, 0, 100, 108, 0, 0>>
              \o <<49, 0>> \o <<w.edf>> \o InfoOptional(w))

InitInfo ==
    /\ wire \in InfoWires
    /\ op = "info"
    /\ pc = "decode"
    /\ sent = <<request(A2S_INFO_HEADER, StrPayload(A2S_INFO_PAYLOAD))>>
    /\ recvd = <<InfoPacket(wire)>>
    /\ packets = NoPackets
    /\ old_packet_id = None
    /\ packet = Rewound(SourcePacket(InfoPacket(wire)))
    /\ outcome = "none"
    /\ result = NoResult

NextInfo ==
    \/ Decode
    \/ Return

SpecInfo == InitInfo /\ [][NextInfo]_vars

\* the keys info() always returns ('ping' left out)
FixedKeys ==
    {"raw", "split", "header", "protocol", "name", "map", "folder", "game", "id",
     "players", "max_players", "bots", "server_type", "environment", "visibility",
     "vac", "version", "edf"}

\* the optional keys of the bits set in edf
OptionalKeys(edf) ==
    (IF BitSet(edf, 128) THEN {"port"} ELSE {})
    \cup (IF BitSet(edf, 16) THEN {"steamid"} ELSE {})
    \cup (IF BitSet(edf, 64) THEN {"sourcetv_port", "sourcetv_name"} ELSE {})
    \cup (IF BitSet(edf, 32) THEN {"keywords"} ELSE {})
    \cup (IF BitSet(edf, 1) THEN {"gameid"} ELSE {})

\* the value the server encoded for an optional key
OptionalValue(w, k) ==
    CASE k = "port"          -> w.port
      [] k = "steamid"       -> [lo |-> 1, mid |-> 0, hi |-> 0]
      [] k = "sourcetv_port" -> 27020
      [] k = "sourcetv_name" -> <<116, 118>>
      [] k = "keywords"      -> w.keywords
      [] k = "gameid"        -> [lo |-> 2, mid |-> 0, hi |-> 0]

\* C12.  EDF gating: for every subset of the EDF bits 0x80, 0x10, 0x40, 0x20,
\* 0x01, info() returns the fixed keys and exactly the optional keys whose bit
\* is set, each with the value the server put at its place in the fixed order
\* port, steamid, sourcetv port and name, keywords, gameid.
C12_EdfGating ==
    pc = "done" =>
        /\ outcome = "returned"
        /\ DOMAIN result.val = FixedKeys \cup OptionalKeys(wire.edf)
        /\ result.val["edf"] = wire.edf
        /\ \A k \in OptionalKeys(wire.edf) : result.val[k] = OptionalValue(wire, k)

\* port, sourcetv and gameid announced, steamid and keywords not
C12_Witness ==
    /\ pc = "done"
    /\ wire.edf = 128 + 64 + 1
    /\ "sourcetv_name" \in DOMAIN result.val
    /\ "steamid" \notin DOMAIN result.val

(***************************************************************************)
(* The SourcePacket codec on its own.  SpecCodec: one get_* call on a      *)
(* packet over any buffer, the cursor anywhere in it.  SpecRoundTrip: one  *)
(* write_* call on an empty packet, seek(0), then one get_* call.          *)
(***************************************************************************)
WireTypes == {"byte", "short", "long", "long_long", "float", "string"}

\* packet.get_<type>(): the value is returned or the exception raised; the
\* cursor is where the call left it
GetStep(type, r) ==
    /\ op' = type
    /\ packet' = [buf |-> packet.buf, pos |-> r.pos]
    /\ IF r.err # "none"
       THEN outcome' = r.err /\ result' = NoResult
       ELSE outcome' = "returned" /\ result' = [op |-> type, val |-> r.val]
    /\ pc' = "read"
    /\ UNCHANGED <<sent, recvd, packets, old_packet_id, wire>>

Get(type) ==
    /\ pc = "codec"
    /\ GetStep(type, get(type, packet.buf, packet.pos))

\* packet.write_<type>(value) on the empty packet
Write(type, value) ==
    /\ pc = "empty"
    /\ packet' = Written(packet, write(type, value))
    /\ wire' = [type |-> type, value |-> value]
    /\ pc' = "written"
    /\ UNCHANGED <<op, sent, recvd, packets, old_packet_id, outcome, result>>

\* packet.seek(0, 0)
Seek ==
    /\ pc = "written"
    /\ packet' = Rewound(packet)
    /\ pc' = "codec"
    /\ UNCHANGED <<op, sent, recvd, packets, old_packet_id, outcome, result, wire>>

\* the buffers of SpecCodec: every sequence of up to MaxBuf bytes 0x00 and 'a'
Buffers == UNION {[1..n -> {0, 97}] : n \in 0..MaxBuf}

InitCodec ==
    /\ wire \in UNION {{[buf |-> b, pos |-> k] : k \in 0..Len(b)} : b \in Buffers}
    /\ packet = wire
    /\ op = "none"
    /\ pc = "codec"
    /\ sent = <<>>
    /\ recvd = <<>>
    /\ packets = NoPackets
    /\ old_packet_id = None
    /\ outcome = "none"
    /\ result = NoResult

NextCodec == \E type \in WireTypes : Get(type)

SpecCodec == InitCodec /\ [][NextCodec]_vars

\* the values written in SpecRoundTrip: the ends of each range and values
\* between; floats 0.0, 1.0, -2.5, the largest finite one and +infinity; strings
\* of 1-, 2-, 3- and 4-byte code points
ValuesOf(type) ==
    CASE type = "byte"      -> {0, 1, 128, 255}
      [] type = "short"     -> {-32768, -1, 0, 1, 513, 32767}
      [] type = "long"      -> {-2147483647 - 1, -1, 0, 70000, 16909060, 2147483647}
      [] type = "long_long" -> {[lo |-> 0, mid |-> 0, hi |-> 0], [lo |-> 1, mid |-> 0, hi |-> 0],
                                [lo |-> 0, mid |-> 256, hi |-> 0],
                                [lo |-> 197121, mid |-> 394500, hi |-> 2055],
                                [lo |-> 16777215, mid |-> 16777215, hi |-> 65535]}
      [] type = "float"     -> {[sign |-> 0, exponent |-> 0, fraction |-> 0],
                                [sign |-> 0, exponent |-> 127, fraction |-> 0],
                                [sign |-> 1, exponent |-> 128, fraction |-> 2097152],
                                [sign |-> 0, exponent |-> 254, fraction |-> 8388607],
                                [sign |-> 0, exponent |-> 255, fraction |-> 0]}
      [] type = "string"    -> {<<>>, <<97>>, <<233>>, <<8364>>, <<128512>>, <<97, 233, 98>>}

InitRoundTrip ==
    /\ wire = NoWire
    /\ packet = NoPacket
    /\ op = "none"
    /\ pc = "empty"
    /\ sent = <<>>
    /\ recvd = <<>>
    /\ packets = NoPackets
    /\ old_packet_id = None
    /\ outcome = "none"
    /\ result = NoResult

NextRoundTrip ==
    \/ \E type \in WireTypes : \E value \in ValuesOf(type) : Write(type, value)
    \/ Seek
    \/ \E type \in WireTypes : Get(type)

SpecRoundTrip == InitRoundTrip /\ [][NextRoundTrip]_vars

\* the bytes a field of a numeric wire type takes on the wire
FieldWidth(type) ==
    CASE type = "byte" -> 1 [] type = "short" -> 2 [] type = "long" -> 4
      [] type = "long_long" -> 8 [] type = "float" -> 4

\* the bytes from the cursor of packet p to the end of its buffer
Remaining(p) == SubSeq(p.buf, p.pos + 1, Len(p.buf))

HasTerminator(b) == \E i \in 1..Len(b) : b[i] = 0

\* C13.  Reads past the end are errors: a numeric get_* with fewer bytes after
\* the cursor than the field is wide raises, and get_string with no 0x00 after
\* the cursor raises; neither returns a value.
C13_ReadsPastEnd ==
    pc = "read" =>
        /\ (op # "string" /\ Len(Remaining(wire)) < FieldWidth(op))
              => (outcome = "struct.error" /\ result = NoResult)
        /\ (op = "string" /\ ~HasTerminator(Remaining(wire)))
              => (outcome = "ValueError" /\ result = NoResult)
        /\ outcome = "returned"
              => IF op = "string" THEN HasTerminator(Remaining(wire))
                 ELSE packet.pos = wire.pos + FieldWidth(op) /\ packet.pos <= Len(wire.buf)

\* get_long() with three bytes left has raised
C13_Witness ==
    /\ pc = "read"
    /\ op = "long"
    /\ Len(Remaining(wire)) = 3
    /\ outcome = "struct.error"

\* the float of the four bytes get_float() returned
FloatOf(f) ==
    [sign |-> f[5] \div 128, exponent |-> (f[5] % 128) * 2 + f[4] \div 128,
     fraction |-> (f[4] % 128) * 65536 + f[3] * 256 + f[2]]

\* C14.  Round-trip codec law: a value written with write_<type> into an empty
\* packet and, after seek(0), read with get_<type> is returned as written, the
\* cursor at the end of the bytes written.
C14_RoundTrip ==
    (pc = "read" /\ wire # NoWire /\ op = wire.type) =>
        /\ outcome = "returned"
        /\ (IF op = "float" THEN FloatOf(result.val) ELSE result.val) = wire.value
        /\ packet.pos = Len(packet.buf)
        /\ packet.buf # <<>>

\* a string of a 2-byte code point between two ASCII ones has made the trip
C14_Witness ==
    /\ pc = "read"
    /\ wire.type = "string"
    /\ op = "string"
    /\ wire.value = <<97, 233, 98>>
    /\ Len(packet.buf) = 5

(***************************************************************************)
(* Calls one after another on one Query.  The socket of line 97 is made    *)
(* once and every recv() reads from it: wire is its receive buffer, each   *)
(* datagram with the number of the call whose request the server answered  *)
(* with it, the ops of the calls so far, and the calls whose datagrams the *)
(* call in progress has read.                                              *)
(***************************************************************************)
\* what the server answers a request of operation o with
RepliesTo(o) ==
    CASE o = "info"    -> {InfoResponse}
      [] o = "rules"   -> {ChallengeResponse(7), RulesResponse,
                           Fragment(1, 2, 0, 1), Fragment(1, 2, 1, 1)}
      [] o = "players" -> {ChallengeResponse(7), PlayersResponse}

EmptySocket == [queue |-> <<>>, ops |-> <<>>, taken |-> {}]

\* recv() takes the first datagram of the receive buffer
Taken(w) ==
    [queue |-> Tail(w.queue), ops |-> w.ops, taken |-> w.taken \cup {Head(w.queue).call}]

InitSocket ==
    /\ op = "none"
    /\ pc = "idle"
    /\ sent = <<>>
    /\ recvd = <<>>
    /\ packets = NoPackets
    /\ old_packet_id = None
    /\ packet = NoPacket
    /\ outcome = "none"
    /\ result = NoResult
    /\ wire = EmptySocket

\* info(), rules() or players() is called on the Query
SocketCall(o) ==
    /\ Len(wire.ops) < MaxCalls
    /\ CallStep(o)
    /\ wire' = [queue |-> wire.queue, ops |-> Append(wire.ops, o), taken |-> {}]

\* a datagram the server sent in answer to call c reaches the socket, during
\* that call or any time after it
Arrive(c, d) ==
    /\ Len(wire.queue) < MaxQueue
    /\ wire' = [wire EXCEPT !.queue = Append(@, [call |-> c, data |-> d])]
    /\ UNCHANGED <<op, pc, sent, recvd, packets, old_packet_id, packet, outcome, result>>

\* the recv() of line 112 returns the first datagram of the receive buffer
SocketRecvFirst ==
    /\ pc = "recv"
    /\ wire.queue # <<>>
    /\ recvd' = <<Head(wire.queue).data>>
    /\ ReceiveStep(receive_first(recv(Head(wire.queue).data)))
    /\ wire' = Taken(wire)

\* the recv() of line 148 returns the first datagram of the receive buffer
SocketRecvNext ==
    /\ pc = "frag"
    /\ Len(recvd) < MaxRecv
    /\ wire.queue # <<>>
    /\ recvd' = Append(recvd, Head(wire.queue).data)
    /\ ReceiveStep(loop_body(recv(Head(wire.queue).data), packets, old_packet_id))
    /\ wire' = Taken(wire)

\* recv() raises socket.timeout: nothing was in the receive buffer
SocketTimeout ==
    /\ wire.queue = <<>>
    /\ Timeout

SocketReturn == ReturnStep /\ UNCHANGED wire

NextSocket ==
    \/ \E o \in Ops : SocketCall(o)
    \/ \E c \in 1..Len(wire.ops) : \E d \in RepliesTo(wire.ops[c]) : Arrive(c, d)
    \/ SocketRecvFirst
    \/ SocketRecvNext
    \/ SocketTimeout
    \/ ChallengeFirst
    \/ ChallengeSecond
    \/ Decode
    \/ SocketReturn

SpecSocket == InitSocket /\ [][NextSocket]_vars

\* C15.  No state shared between queries: the result a call returns is built
\* only from datagrams the server sent in answer to that call's own requests;
\* no datagram answering an earlier call is part of it.
C15_OwnDatagramsOnly ==
    (pc = "done" /\ outcome = "returned") => wire.taken \subseteq {Len(wire.ops)}

\* the rules response of wire w did not arrive whole: a read of rules() fails
RulesCutShort(w) == w.cut < Len(RulesPacket(w.rules))

\* C16.  No silently dropped error: when rules() has absorbed a failed read
\* instead of raising, the dict it returns holds an entry with the value
\* 'N/A - packet cut off', so that it differs from the result of a complete
\* decode.  (For players() the marker is the int left in the failed slot.)
C16_FailureMarked ==
    (pc = "done" /\ outcome = "returned" /\ RulesCutShort(wire))
    => \E name \in DOMAIN result.val : result.val[name] = CUT_OFF

\* the leading 32-bit marker of datagram d is SPLIT
SplitMarked(d) == Len(d) >= 4 /\ SubSeq(d, 1, 4) = pack_l(SPLIT)

\* the datagram the recv() of this step delivered
Delivered == recvd'[Len(recvd')]

\* C17.  Marker discipline: a datagram received while reassembly is in progress
\* whose leading marker is not SPLIT is not taken for a fragment: nothing of it
\* is stored and receive() does not return a packet joined with it.
C17_MarkerStep ==
    (pc = "frag" /\ Len(recvd') = Len(recvd) + 1 /\ ~SplitMarked(Delivered))
    => (packets' = packets /\ pc' \in {"frag", "done"})

C17_MarkerDiscipline == [][C17_MarkerStep]_vars

(***************************************************************************)
(* players() on packets of any content: the names are bytes that need not  *)
(* be UTF-8, and the packet may be whole or cut anywhere after the count.  *)
(***************************************************************************)
RawNames == {<<>>, <<97>>, <<255>>, <<255, 97>>}

RawRecords == [index : {9}, name : RawNames, score : {70000}, duration : {<<0, 0, 128, 63>>}]

\* one player on the wire, the name's bytes as they are
EncodeRaw(r) == <<r.index>> \o r.name \o <<0>> \o pack_l(r.score) \o r.duration

RECURSIVE EncodeRaws(_)
EncodeRaws(recs) == IF recs = <<>> THEN <<>> ELSE EncodeRaw(recs[1]) \o EncodeRaws(Tail(recs))

RawPacket(recs) == Whole(68, <<Len(recs)>> \o EncodeRaws(recs))

RawWires ==
    UNION {{[players |-> ps, cut |-> c] : c \in 6..Len(RawPacket(ps))} :
              ps \in UNION {[1..n -> RawRecords] : n \in 1..MaxPlayers}}

CutRaw(w) == SubSeq(RawPacket(w.players), 1, w.cut)

InitPlayersRaw ==
    /\ wire \in RawWires
    /\ op = "players"
    /\ pc = "decode"
    /\ sent = <<request(A2S_PLAYERS_HEADER, IntPayload(CHALLENGE_NUMBER_REQUEST)),
                request(A2S_PLAYERS_HEADER, IntPayload(7))>>
    /\ recvd = <<CutRaw(wire)>>
    /\ packets = NoPackets
    /\ old_packet_id = None
    /\ packet = Rewound(SourcePacket(CutRaw(wire)))
    /\ outcome = "none"
    /\ result = NoResult

NextPlayersRaw ==
    \/ Decode
    \/ Return

SpecPlayersRaw == InitPlayersRaw /\ [][NextPlayersRaw]_vars

\* slot is a full record of a player; slot is the bare marker of position x
FullRecord(slot) ==
    /\ DOMAIN slot = {"dict"}
    /\ DOMAIN slot.dict = {"index", "name", "score", "duration"}

BareMarker(slot, x) == DOMAIN slot = {"int"} /\ slot.int = x

\* C18.  Players result shape: whatever the packet holds after a readable
\* preamble, players() returns as many slots as players were advertised, slot x
\* a full record or the int x, and the full records are a prefix: after a bare
\* marker every slot is a bare marker.
C18_PlayersShape ==
    pc = "done" =>
        /\ outcome = "returned"
        /\ Len(result.val) = Len(wire.players)
        /\ \A x \in 1..Len(result.val) :
              FullRecord(result.val[x]) \/ BareMarker(result.val[x], x - 1)
        /\ \A x, y \in 1..Len(result.val) :
              (x < y /\ BareMarker(result.val[x], x - 1)) => BareMarker(result.val[y], y - 1)

(***************************************************************************)
(* receive() on a stream of any length.  The loop of lines 130-148 is taken *)
(* in two steps: the recv() of line 148 returns a datagram (pc = "data",    *)
(* recvd the local `data`), then lines 131-145 run on it.  Every blocking   *)
(* recv() delivers a datagram or raises socket.timeout and the code after   *)
(* it runs: while receive() is in progress, its position changes.           *)
(***************************************************************************)
StreamDatagrams ==
    Fragments \cup {ChallengeResponse(7), RulesResponse, PlayersResponse, InfoResponse}

\* the recv() of line 148 delivers datagram d
StreamRecv(d) ==
    /\ pc = "frag"
    /\ recvd' = <<d>>
    /\ pc' = "data"
    /\ UNCHANGED <<op, sent, packets, old_packet_id, packet, outcome, result, wire>>

\* lines 131-145 run on the datagram just received
StreamLoop ==
    /\ pc = "data"
    /\ UNCHANGED recvd
    /\ Receive(loop_body(recv(recvd[1]), packets, old_packet_id))

NextStream ==
    \/ \E o \in Ops : Call(o)
    \/ \E d \in StreamDatagrams : RecvFirst(d)
    \/ \E d \in StreamDatagrams : StreamRecv(d)
    \/ StreamLoop
    \/ Timeout
    \/ ChallengeFirst
    \/ ChallengeSecond
    \/ Decode
    \/ Return

\* receive() is running: blocked in a recv() or between two of them
InReceive == pc \in {"recv", "frag", "data"}

\* receive() has returned a packet or raised
ReceiveOver == pc \in {"challenge", "decode", "done"}

\* receive() moves on: the steps of NextStream that change pc while InReceive
\* are RecvFirst, StreamRecv, StreamLoop and Timeout
ReceiveRuns ==
    /\ InReceive
    /\ pc' \in {"recv", "frag", "data", "challenge", "decode", "done"} \ {pc}

SpecStream == Init /\ [][NextStream]_vars /\ WF_pc(ReceiveRuns)

\* C19.  Termination of reassembly: every call of receive() returns a packet or
\* raises, whatever datagrams the server keeps sending.
C19_ReceiveTerminates == InReceive ~> ReceiveOver

====
